---- MODULE Spec2Model ----
(***************************************************************************)
(* Model of contrib/genesis/genesis_piv2.py, the PIV2 genesis block        *)
(* generator: the codec (struct.pack, varint, scripts, coinbase            *)
(* transaction, block header), the merkle builder, the compact-difficulty  *)
(* decoder and the nonce search of mine_genesis.                           *)
(*                                                                         *)
(* Representation.                                                         *)
(*   bytes        a sequence of integers 0..255                            *)
(*   str          a sequence of code points (text) or of one-character     *)
(*                strings (hex text)                                       *)
(*   int          a TLA+ integer where the value is below 2^31; the        *)
(*                256-bit target and the hash read as an integer are       *)
(*                sequences of base-256 digits, least significant first    *)
(*   exception    a call that can raise returns [exc |-> name, val |-> v]  *)
(*   SHA-256      double_sha256 is an unknown function: the variable sha   *)
(*                holds the part of it the program has asked for so far,   *)
(*                and every new question is answered with any digest of    *)
(*                DigestSet; the same bytes always get the same answer     *)
(***************************************************************************)
EXTENDS Integers, Sequences, FiniteSets, TLC

VARIABLES
    sha,             \* the double-SHA256 function as far as it has been asked
    sha_calls,       \* number of double_sha256 calls made by the current run
    network_config,  \* mine_genesis argument
    outputs,         \* mine_genesis argument
    verbose,         \* mine_genesis argument
    clock,           \* what time.time() returns during the current run, in
                     \* seconds since the process started
    pc,              \* position of the program
    txid,            \* mine_genesis locals ...
    merkle_root,
    prev_hash,
    target,
    start_time,
    nonce,
    header,
    hash_result,
    hashed,          \* nonces whose header the loop hashed and compared
    result,          \* the returned dict, or the raised exception
    stdout,          \* number of print calls made
    history,         \* finished earlier runs: arguments and outcome
    txids,           \* the caller's list object handed to compute_merkle_root
    merkle_arg,      \* its content when the call was made
    merkle_ret,      \* what compute_merkle_root returned
    nbits_arg,       \* arguments of the nbits_to_target calls
    target_ret       \* their results

vars == <<sha, sha_calls, network_config, outputs, verbose, clock, pc, txid,
          merkle_root, prev_hash, target, start_time, nonce, header,
          hash_result, hashed, result, stdout, history, txids, merkle_arg,
          merkle_ret, nbits_arg, target_ret>>

-----------------------------------------------------------------------------
(* Bounds of the model *)

\* The model's stand-in for the loop limit 0xffffffff of mine_genesis: the
\* nonce space is 0..NonceLimit instead of 0..2^32-1.
NonceLimit == 3

\* Longest list handed to compute_merkle_root.
MaxTxids == 4

-----------------------------------------------------------------------------
(* Python values *)

Rep(b, n) == [i \in 1..n |-> b]

Reverse(s) == [i \in 1..Len(s) |-> s[Len(s) + 1 - i]]

Ok(v) == [exc |-> "", val |-> v]

Raise(e) == [exc |-> e, val |-> <<>>]

\* v >> (8 * k)
RECURSIVE ShiftRightBytes(_, _)
ShiftRightBytes(v, k) == IF k = 0 THEN v ELSE ShiftRightBytes(v \div 256, k - 1)

\* Little-endian bytes of v in n bytes; struct.pack raises struct.error when v
\* does not fit.
LEBytes(v, n) == [i \in 1..n |-> ShiftRightBytes(v, i - 1) % 256]

Fits(v, n) == v >= 0 /\ ShiftRightBytes(v, n) = 0

struct_pack(n, v) == IF Fits(v, n) THEN Ok(LEBytes(v, n)) ELSE Raise("struct.error")

\* bytes([n])
bytes_of(n) == IF n >= 0 /\ n < 256 THEN Ok(<<n>>) ELSE Raise("ValueError")

\* str.encode('utf-8') of a sequence of code points
utf8_char(c) ==
    IF c < 128 THEN <<c>>
    ELSE IF c < 2048 THEN <<192 + (c \div 64), 128 + (c % 64)>>
    ELSE IF c < 65536 THEN <<224 + (c \div 4096), 128 + ((c \div 64) % 64), 128 + (c % 64)>>
    ELSE <<240 + (c \div 262144), 128 + ((c \div 4096) % 64),
           128 + ((c \div 64) % 64), 128 + (c % 64)>>

IsByte(b) == b >= 0

\* Four slots per character, the unused ones marked -1 and dropped.
encode_utf8(text) ==
    SelectSeq([k \in 1..(4 * Len(text)) |->
                 IF ((k - 1) % 4) + 1 <= Len(utf8_char(text[(k + 3) \div 4]))
                 THEN utf8_char(text[(k + 3) \div 4])[((k - 1) % 4) + 1]
                 ELSE -1],
              IsByte)

HexDigits == <<"0", "1", "2", "3", "4", "5", "6", "7", "8", "9",
               "a", "b", "c", "d", "e", "f">>

UpperHex == <<"A", "B", "C", "D", "E", "F">>

IsHexChar(c) == (\E i \in 1..16 : HexDigits[i] = c) \/ (\E i \in 1..6 : UpperHex[i] = c)

HexValue(c) ==
    IF \E i \in 1..16 : HexDigits[i] = c
    THEN (CHOOSE i \in 1..16 : HexDigits[i] = c) - 1
    ELSE (CHOOSE i \in 1..6 : UpperHex[i] = c) + 9

\* binascii.unhexlify
unhexlify(hexstr) ==
    IF Len(hexstr) % 2 = 1 THEN Raise("binascii.Error")
    ELSE IF \E i \in 1..Len(hexstr) : ~IsHexChar(hexstr[i]) THEN Raise("binascii.Error")
    ELSE Ok([i \in 1..(Len(hexstr) \div 2) |->
               16 * HexValue(hexstr[2 * i - 1]) + HexValue(hexstr[2 * i])])

\* binascii.hexlify(data).decode()
hexlify(data) ==
    [i \in 1..(2 * Len(data)) |->
        IF i % 2 = 1 THEN HexDigits[(data[(i + 1) \div 2] \div 16) + 1]
        ELSE HexDigits[(data[i \div 2] % 16) + 1]]

-----------------------------------------------------------------------------
(* Arbitrary-precision non-negative integers: base-256 digits, least        *)
(* significant first, no leading (high) zero digits.                        *)

Normalize(d) ==
    SubSeq(d, 1, Cardinality({i \in 1..Len(d) : \E j \in i..Len(d) : d[j] # 0}))

\* An integer below 2^32 as digits.
IntToBig(n) == Normalize(LEBytes(n, 4))

\* x << (8 * k)
ShiftLeftBytes(x, k) == Normalize(Rep(0, k) \o x)

\* a < b, both normalized
BigLess(a, b) ==
    \/ Len(a) < Len(b)
    \/ /\ Len(a) = Len(b)
       /\ \E i \in 1..Len(a) :
            /\ a[i] < b[i]
            /\ \A j \in (i + 1)..Len(a) : a[j] = b[j]

BigLeq(a, b) == a = b \/ BigLess(a, b)

\* int.from_bytes(data, 'little')
int_from_bytes_little(data) == Normalize(data)

-----------------------------------------------------------------------------
(* Hash functions *)

\* The digests the unknown function may answer with: the integer 1, the
\* regtest target 0x7fffff << 232 itself, and 2^256 - 1.
DigestLow == <<1>> \o Rep(0, 31)

DigestMid == Rep(0, 29) \o <<255, 255, 127>>

DigestHigh == Rep(255, 32)

DigestSet == {DigestLow, DigestMid, DigestHigh}

NoHashes == [x \in {} |-> <<>>]

\* double_sha256(data) where h is what is known of the function and d is its
\* value at data should data be new.
double_sha256(h, data, d) == IF data \in DOMAIN h THEN h[data] ELSE d

\* What is known of the function after that call.
Asked(h, data, d) == IF data \in DOMAIN h THEN h ELSE (data :> d) @@ h

reverse_bytes(data) == Reverse(data)

-----------------------------------------------------------------------------
(* Serialization *)

serialize_varint(n) ==
    IF n < 253 THEN struct_pack(1, n).val
    ELSE IF n <= 65535 THEN <<253>> \o struct_pack(2, n).val
    ELSE IF n \div 65536 <= 65535 THEN <<254>> \o struct_pack(4, n).val
    ELSE <<255>> \o struct_pack(8, n).val

\* Default arguments of create_coinbase_script; serialize_transaction passes
\* the timestamp alone.
CoinbaseNBits == 486604799

CoinbaseNNumber == 4

create_coinbase_script(timestamp, nbits, nnumber) ==
    LET nbits_bytes == struct_pack(4, nbits)
        nnumber_bytes == bytes_of(nnumber)
        ts_bytes == encode_utf8(timestamp)
    IN  IF nbits_bytes.exc # "" THEN nbits_bytes
        ELSE IF nnumber_bytes.exc # "" THEN nnumber_bytes
        ELSE LET push1 == bytes_of(Len(nbits_bytes.val))
                 push2 == bytes_of(Len(nnumber_bytes.val))
                 push3 == bytes_of(Len(ts_bytes))
             IN  IF push1.exc # "" THEN push1
                 ELSE IF push2.exc # "" THEN push2
                 ELSE IF push3.exc # "" THEN push3
                 ELSE Ok(push1.val \o nbits_bytes.val
                         \o push2.val \o nnumber_bytes.val
                         \o push3.val \o ts_bytes)

create_p2pkh_script(pubkeyhash) ==
    LET hash160 == unhexlify(pubkeyhash)
    IN  IF hash160.exc # "" THEN hash160
        ELSE Ok(<<118, 169, 20>> \o hash160.val \o <<136, 172>>)

\* The loop over the outputs of serialize_transaction.
RECURSIVE serialize_outputs(_)
serialize_outputs(outs) ==
    IF outs = <<>> THEN Ok(<<>>)
    ELSE LET out == Head(outs)
             value == struct_pack(8, out.value)
             script == create_p2pkh_script(out.pubkeyhash)
         IN  IF value.exc # "" THEN value
             ELSE IF script.exc # "" THEN script
             ELSE LET rest == serialize_outputs(Tail(outs))
                  IN  IF rest.exc # "" THEN rest
                      ELSE Ok(value.val \o serialize_varint(Len(script.val))
                              \o script.val \o rest.val)

serialize_transaction(outs, timestamp) ==
    LET scriptsig == create_coinbase_script(timestamp, CoinbaseNBits, CoinbaseNNumber)
    IN  IF scriptsig.exc # "" THEN scriptsig
        ELSE LET body == serialize_outputs(outs)
             IN  IF body.exc # "" THEN body
                 ELSE Ok(struct_pack(4, 1).val
                         \o serialize_varint(1)
                         \o Rep(0, 32)
                         \o Rep(255, 4)
                         \o serialize_varint(Len(scriptsig.val))
                         \o scriptsig.val
                         \o Rep(255, 4)
                         \o serialize_varint(Len(outs))
                         \o body.val
                         \o struct_pack(4, 0).val)

\* The for loop of compute_merkle_root: one double_sha256 per pair, from pair
\* i on. fresh is the supply of answers for questions not asked before.
RECURSIVE hash_pairs(_, _, _, _)
hash_pairs(level, i, h, fresh) ==
    IF i > Len(level)
    THEN [new_level |-> <<>>, sha |-> h, fresh |-> fresh, calls |-> 0]
    ELSE LET data == level[i] \o level[i + 1]
             known == data \in DOMAIN h
             digest == double_sha256(h, data, IF known THEN h[data] ELSE Head(fresh))
             rest == hash_pairs(level, i + 2, Asked(h, data, digest),
                                IF known THEN fresh ELSE Tail(fresh))
         IN  [new_level |-> <<digest>> \o rest.new_level,
              sha |-> rest.sha, fresh |-> rest.fresh, calls |-> rest.calls + 1]

\* Mutant: an odd level is padded with 32 zero bytes instead of its last
\* element.
pad_level_zero(level) ==
    IF Len(level) % 2 = 1 THEN Append(level, Rep(0, 32)) ELSE level

\* txids.append(txids[-1]) when the length is odd
pad_level(level) ==
    IF Len(level) % 2 = 1 THEN Append(level, level[Len(level)]) ELSE level

\* The while loop of compute_merkle_root. arg is the caller's list object, cur
\* the list the local name txids is bound to; they are the same object
\* (aliased) until `txids = new_level` rebinds the name.
RECURSIVE merkle_loop(_, _, _, _, _, _)
merkle_loop(arg, cur, aliased, h, fresh, calls) ==
    IF Len(cur) > 1
    THEN LET padded == pad_level(cur)
             hp == hash_pairs(padded, 1, h, fresh)
         IN  merkle_loop(IF aliased THEN padded ELSE arg, hp.new_level, FALSE,
                         hp.sha, hp.fresh, calls + hp.calls)
    ELSE [ret |-> cur[1], txids |-> arg, sha |-> h, calls |-> calls]

\* Mutant: the early return also takes the one-element list.
compute_merkle_root_single(list, h, fresh) ==
    IF Len(list) <= 1
    THEN [ret |-> Rep(0, 32), txids |-> list, sha |-> h, calls |-> 0]
    ELSE merkle_loop(list, list, TRUE, h, fresh, 0)

\* compute_merkle_root(txids): the value returned (ret), the caller's list
\* after the call (txids), the hash function as known after it (sha) and the
\* number of double_sha256 calls made.
compute_merkle_root(list, h, fresh) ==
    IF Len(list) = 0
    THEN [ret |-> Rep(0, 32), txids |-> list, sha |-> h, calls |-> 0]
    ELSE merkle_loop(list, list, TRUE, h, fresh, 0)

\* Mutant: the nonce is packed as '<Q', 8 bytes.
serialize_block_header_wide(version, prev, root, ntime, nbits, n) ==
    Ok(struct_pack(4, version).val \o prev \o root \o struct_pack(4, ntime).val
       \o struct_pack(4, nbits).val \o struct_pack(8, n).val)

serialize_block_header(version, prev, root, ntime, nbits, n) ==
    LET f1 == struct_pack(4, version)
        f4 == struct_pack(4, ntime)
        f5 == struct_pack(4, nbits)
        f6 == struct_pack(4, n)
    IN  IF f1.exc # "" THEN f1
        ELSE IF f4.exc # "" THEN f4
        ELSE IF f5.exc # "" THEN f5
        ELSE IF f6.exc # "" THEN f6
        ELSE Ok(f1.val \o prev \o root \o f4.val \o f5.val \o f6.val)

-----------------------------------------------------------------------------
(* Mining *)

RECURSIVE Pow256(_)
Pow256(k) == IF k = 0 THEN 1 ELSE 256 * Pow256(k - 1)

\* Mutant: the mantissa is masked with 0x007fffff.
nbits_to_target_signbit(nbits) ==
    LET exponent == nbits \div 16777216
        mantissa == nbits % 8388608
    IN  IF exponent <= 3
        THEN IntToBig(mantissa \div Pow256(3 - exponent))
        ELSE ShiftLeftBytes(IntToBig(mantissa), exponent - 3)

nbits_to_target(nbits) ==
    LET exponent == nbits \div 16777216
        mantissa == nbits % 16777216
    IN  IF exponent <= 3
        THEN IntToBig(mantissa \div Pow256(3 - exponent))
        ELSE ShiftLeftBytes(IntToBig(mantissa), exponent - 3)

\* The loop variable's first value, the loop condition, the acceptance test
\* and the step of the nonce search.
first_nonce == 0

loop_continues(n) == n < NonceLimit

\* Mutant: the comparison is strict, a hash equal to the target is rejected.
meets_target_strict(hash_int, tgt) == BigLess(hash_int, tgt)

meets_target(hash_int, tgt) == BigLeq(hash_int, tgt)

\* Mutant: the nonce is not incremented.
next_nonce_stuck(n) == n

next_nonce(n) == n + 1

\* Mutant: the result carries the wall-clock start time instead of nTime.
mining_result_wallclock(n, hash, root, ntime, nbits) ==
    [kind |-> "return",
     value |-> [nonce |-> n,
                hash |-> hexlify(reverse_bytes(hash)),
                merkle_root |-> hexlify(reverse_bytes(root)),
                ntime |-> start_time,
                nbits |-> nbits]]

\* The dict mine_genesis returns.
mining_result(n, hash, root, ntime, nbits) ==
    [kind |-> "return",
     value |-> [nonce |-> n,
                hash |-> hexlify(reverse_bytes(hash)),
                merkle_root |-> hexlify(reverse_bytes(root)),
                ntime |-> ntime,
                nbits |-> nbits]]

\* An exception leaving mine_genesis.
raised(name) == [kind |-> "raise", value |-> [exception |-> name]]

NoResult == [kind |-> "none", value |-> [exception |-> ""]]

\* Print calls of the three verbose blocks.
banner_prints(v) == IF v THEN 10 ELSE 0

found_prints(v) == IF v THEN 14 ELSE 0

progress_prints(v, n) == IF v /\ n % 100000 = 0 THEN 1 ELSE 0

merkle_vars == <<txids, merkle_arg, merkle_ret>>

target_vars == <<nbits_arg, target_ret>>

input_vars == <<network_config, outputs, verbose>>

\* mine_genesis up to the loop, when serialize_transaction raises: the
\* exception leaves mine_genesis.
BuildRaises ==
    /\ pc = "Building"
    /\ \E coinbase_tx \in {serialize_transaction(outputs, network_config.timestamp)} :
           /\ coinbase_tx.exc # ""
           /\ result' = raised(coinbase_tx.exc)
    /\ pc' = "Raised"
    /\ UNCHANGED <<sha, sha_calls, input_vars, clock, txid, merkle_root, prev_hash,
                   target, start_time, nonce, header, hash_result, hashed, stdout,
                   history, merkle_vars, target_vars>>

\* mine_genesis up to the loop: coinbase transaction, txid, merkle root,
\* target, banner, start time, nonce = 0.
Build ==
    /\ pc = "Building"
    /\ \E coinbase_tx \in {serialize_transaction(outputs, network_config.timestamp)} :
           /\ coinbase_tx.exc = ""
           /\ \E d \in DigestSet :
              \E id \in {double_sha256(sha, coinbase_tx.val, d)} :
              \E root \in {compute_merkle_root(<<id>>, Asked(sha, coinbase_tx.val, d), <<>>)} :
                 /\ txid' = id
                 /\ merkle_root' = root.ret
                 /\ sha' = root.sha
                 /\ sha_calls' = sha_calls + 1 + root.calls
    /\ prev_hash' = Rep(0, 32)
    /\ target' = nbits_to_target(network_config.nBits)
    /\ stdout' = stdout + banner_prints(verbose)
    /\ start_time' = clock
    /\ nonce' = first_nonce
    /\ pc' = "Searching"
    /\ UNCHANGED <<input_vars, clock, header, hash_result, hashed, result, history,
                   merkle_vars, target_vars>>

\* One iteration of the loop whose hash is above the target.
SearchMiss ==
    /\ pc = "Searching"
    /\ loop_continues(nonce)
    /\ \E hdr \in {serialize_block_header(network_config.nVersion, prev_hash, merkle_root,
                                            network_config.nTime, network_config.nBits,
                                            nonce)} :
           /\ hdr.exc = ""
           /\ \E d \in DigestSet :
              \E hash \in {double_sha256(sha, hdr.val, d)} :
              \E hash_int \in {int_from_bytes_little(hash)} :
                 /\ ~meets_target(hash_int, target)
                 /\ header' = hdr.val
                 /\ hash_result' = hash
                 /\ sha' = Asked(sha, hdr.val, d)
    /\ sha_calls' = sha_calls + 1
    /\ hashed' = hashed \cup {nonce}
    /\ stdout' = stdout + progress_prints(verbose, nonce)
    /\ nonce' = next_nonce(nonce)
    /\ UNCHANGED <<input_vars, clock, pc, txid, merkle_root, prev_hash, target,
                   start_time, result, history, merkle_vars, target_vars>>

\* One iteration of the loop whose hash meets the target: the result is
\* returned.
SearchFound ==
    /\ pc = "Searching"
    /\ loop_continues(nonce)
    /\ \E hdr \in {serialize_block_header(network_config.nVersion, prev_hash, merkle_root,
                                            network_config.nTime, network_config.nBits,
                                            nonce)} :
           /\ hdr.exc = ""
           /\ \E d \in DigestSet :
              \E hash \in {double_sha256(sha, hdr.val, d)} :
              \E hash_int \in {int_from_bytes_little(hash)} :
                 /\ meets_target(hash_int, target)
                 /\ header' = hdr.val
                 /\ hash_result' = hash
                 /\ sha' = Asked(sha, hdr.val, d)
                 /\ result' = mining_result(nonce, hash, merkle_root,
                                            network_config.nTime, network_config.nBits)
    /\ sha_calls' = sha_calls + 1
    /\ hashed' = hashed \cup {nonce}
    /\ stdout' = stdout + found_prints(verbose)
    /\ pc' = "Found"
    /\ UNCHANGED <<input_vars, clock, txid, merkle_root, prev_hash, target, start_time,
                   nonce, history, merkle_vars, target_vars>>

\* The loop condition fails: raise Exception("Genesis not found!").
Exhaust ==
    /\ pc = "Searching"
    /\ ~loop_continues(nonce)
    /\ result' = raised("Genesis not found!")
    /\ pc' = "Exhausted"
    /\ UNCHANGED <<sha, sha_calls, input_vars, clock, txid, merkle_root, prev_hash,
                   target, start_time, nonce, header, hash_result, hashed, stdout,
                   history, merkle_vars, target_vars>>

-----------------------------------------------------------------------------
(* Arguments of mine_genesis *)

\* Coinbase messages: "test", 255 and 256 one-byte characters, and 128
\* two-byte characters (256 bytes).
MsgTest == <<116, 101, 115, 116>>

Messages == {MsgTest, Rep(116, 255), Rep(116, 256), Rep(233, 128)}

\* nBits of the regtest and of the mainnet/testnet configuration, and a
\* compact value whose target is 0.
RegtestNBits == 545259519

MainnetNBits == 504365040

ZeroTargetNBits == 3 * 16777216

GenesisTime == 1732924800

Configs(msgs, bits) ==
    [timestamp : msgs, nTime : {GenesisTime}, nBits : bits, nVersion : {1}]

\* Public key hashes as hex text: 20 zero bytes, the first testnet output's
\* hash, 2 bytes, 21 bytes, an odd number of digits, a non-hex digit.
ZeroHash == Rep("0", 40)

Mn1Hash == <<"8","7","0","6","0","6","0","9","b","1","2","d","7","9","7","f","d","2","3","9",
             "6","6","2","9","9","5","7","f","d","e","4","a","3","d","3","a","d","b","f","f">>

ShortHash == <<"a", "b", "c", "d">>

LongHash == Rep("0", 42)

OddHash == <<"a", "b", "c">>

NonHexHash == <<"z", "z">>

Out(h) == [value |-> 1, pubkeyhash |-> h]

OutputLists ==
    {<<>>, <<Out(ZeroHash)>>, <<Out(Mn1Hash), Out(ZeroHash)>>, <<Out(ShortHash)>>,
     <<Out(LongHash)>>, <<Out(ZeroHash), Out(OddHash)>>, <<Out(NonHexHash)>>}

IdleMerkle == txids = <<>> /\ merkle_arg = <<>> /\ merkle_ret = <<>>

IdleTarget == nbits_arg = <<>> /\ target_ret = <<>>

\* The locals of a call of mine_genesis before its first statement.
FreshLocals ==
    /\ txid = <<>>
    /\ merkle_root = <<>>
    /\ prev_hash = <<>>
    /\ target = <<>>
    /\ start_time = 0
    /\ nonce = 0
    /\ header = <<>>
    /\ hash_result = <<>>
    /\ hashed = {}
    /\ result = NoResult

\* A call mine_genesis(network_config, outputs, verbose) in a fresh process.
Called(configs, outs) ==
    /\ network_config \in configs
    /\ outputs \in outs
    /\ verbose \in BOOLEAN
    /\ clock = 0
    /\ pc = "Building"
    /\ sha = NoHashes
    /\ sha_calls = 0
    /\ stdout = 0
    /\ history = <<>>
    /\ FreshLocals

Init ==
    /\ Called(Configs(Messages, {RegtestNBits, MainnetNBits, ZeroTargetNBits}), OutputLists)
    /\ IdleMerkle
    /\ IdleTarget

Next == BuildRaises \/ Build \/ SearchMiss \/ SearchFound \/ Exhaust

Spec == Init /\ [][Next]_vars

\* The same calls with the short coinbase message only.
InitShort ==
    /\ Called(Configs({MsgTest}, {RegtestNBits, MainnetNBits, ZeroTargetNBits}), OutputLists)
    /\ IdleMerkle
    /\ IdleTarget

\* mine_genesis is one synchronous thread: a step that can be taken is taken.
FairSpec == InitShort /\ [][Next]_vars /\ WF_vars(Next)

-----------------------------------------------------------------------------
(* Two calls of mine_genesis, one after the other, in one process *)

RerunConfigs == Configs({MsgTest, Rep(116, 256)}, {RegtestNBits, MainnetNBits})

RerunOutputs == {<<Out(ZeroHash)>>}

Finished == pc \in {"Found", "Exhausted", "Raised"}

\* mine_genesis has returned or raised; the caller records the outcome and
\* calls it a second time, with any arguments, later on the wall clock.
Rerun ==
    /\ Finished
    /\ history = <<>>
    /\ history' = <<[network_config |-> network_config, outputs |-> outputs,
                     verbose |-> verbose, start_time |-> start_time,
                     result |-> result]>>
    /\ network_config' \in RerunConfigs
    /\ outputs' \in RerunOutputs
    /\ verbose' \in BOOLEAN
    /\ clock' \in {clock, clock + 1}
    /\ pc' = "Building"
    /\ sha_calls' = 0
    /\ txid' = <<>>
    /\ merkle_root' = <<>>
    /\ prev_hash' = <<>>
    /\ target' = <<>>
    /\ start_time' = 0
    /\ nonce' = 0
    /\ header' = <<>>
    /\ hash_result' = <<>>
    /\ hashed' = {}
    /\ result' = NoResult
    /\ UNCHANGED <<sha, stdout, merkle_vars, target_vars>>

InitRerun == Called(RerunConfigs, RerunOutputs) /\ IdleMerkle /\ IdleTarget

NextRerun == BuildRaises \/ Build \/ SearchMiss \/ SearchFound \/ Exhaust \/ Rerun

SpecRerun == InitRerun /\ [][NextRerun]_vars

-----------------------------------------------------------------------------
(* Properties of the nonce search *)

\* The header of the current run serialized with nonce n, recomputed from the
\* arguments and the merkle root.
HeaderWithNonce(n) ==
    serialize_block_header(network_config.nVersion, Rep(0, 32), merkle_root,
                           network_config.nTime, network_config.nBits, n).val

\* The double hash of that header read as a little-endian integer.
HashIntWithNonce(n) == int_from_bytes_little(sha[HeaderWithNonce(n)])

DecodedTarget == nbits_to_target(network_config.nBits)

\* C1: when mine_genesis returns nonce n, the header hash with nonce n is
\* <= the target decoded from nBits (equality accepted), every nonce m < n
\* gives a hash > target, and the nonces hashed are exactly 0, 1, ..., n.
C1_LowestQualifyingNonce ==
    pc = "Found" =>
        LET n == result.value.nonce
        IN  /\ n \in 0..NonceLimit
            /\ HeaderWithNonce(n) \in DOMAIN sha
            /\ BigLeq(HashIntWithNonce(n), DecodedTarget)
            /\ result.value.hash = hexlify(reverse_bytes(sha[HeaderWithNonce(n)]))
            /\ \A m \in 0..(n - 1) :
                 /\ HeaderWithNonce(m) \in DOMAIN sha
                 /\ BigLess(DecodedTarget, HashIntWithNonce(m))
            /\ hashed = 0..n

\* A run that returned its third nonce, whose hash equals the target.
C1_Witness ==
    /\ pc = "Found"
    /\ result.value.nonce = 2
    /\ HashIntWithNonce(2) = DecodedTarget
    /\ HashIntWithNonce(1) # DecodedTarget

\* C2 as claimed: when the failure is signalled, every nonce of the nonce
\* space 0..NonceLimit (0..0xffffffff in the program) has been hashed and
\* compared against the target.
C2_FailureAfterWholeNonceSpace ==
    pc = "Exhausted" => hashed = 0..NonceLimit

DecodesTo20Bytes(pubkeyhash) ==
    /\ unhexlify(pubkeyhash).exc = ""
    /\ Len(unhexlify(pubkeyhash).val) = 20

ViolatesEncodingPrecondition ==
    \/ Len(encode_utf8(network_config.timestamp)) >= 256
    \/ \E i \in 1..Len(outputs) : ~DecodesTo20Bytes(outputs[i].pubkeyhash)

\* C3 as claimed: with a coinbase message of 256 or more UTF-8 bytes, or an
\* output whose pubkeyhash does not decode to exactly 20 bytes, mine_genesis
\* makes no double_sha256 call and never enters the nonce search.
C3_EncodingErrorBeforeHashing ==
    ViolatesEncodingPrecondition =>
        /\ sha_calls = 0
        /\ pc \in {"Building", "Raised"}

\* C4 as claimed: every run goes from Building to Searching.
C4_EveryRunEntersSearching ==
    [][(pc = "Building") => (pc' = "Searching")]_vars

CoinbaseTxError == serialize_transaction(outputs, network_config.timestamp).exc

BuildingLeadsToSearch == pc' = "Searching" /\ nonce' = 0 /\ CoinbaseTxError = ""

BuildingRaises == pc' = "Raised" /\ CoinbaseTxError # ""

NonceGoesUpByOne == nonce' = nonce + 1 /\ nonce' <= NonceLimit

\* C4, amended: a run leaves Building for Searching, or, when building the
\* coinbase transaction raises, for the raised exception without searching;
\* a run that is Searching eventually reaches Found or Exhausted, which are
\* final; the search starts at nonce 0, and every step that stays in
\* Searching increases the nonce by exactly 1 and stays below the limit.
C4_SearchTerminates ==
    /\ [][(pc = "Building") => (BuildingLeadsToSearch \/ BuildingRaises)]_vars
    /\ (pc = "Building" /\ CoinbaseTxError = "") ~> (pc = "Searching")
    /\ (pc = "Searching") ~> (pc \in {"Found", "Exhausted"})
    /\ [][(pc = "Searching" /\ pc' = "Searching") => NonceGoesUpByOne]_vars
    /\ [][(pc \in {"Found", "Exhausted", "Raised"}) => (pc' = pc)]_vars

\* A run that hashed every nonce below the limit and signalled the failure.
C4_Witness ==
    /\ pc = "Exhausted"
    /\ nonce = NonceLimit
    /\ Cardinality(hashed) = NonceLimit

\* C5: a second run with the same network configuration and the same outputs
\* as the first has the same outcome, whatever its verbose flag and its
\* start time.
C5_SameInputsSameOutcome ==
    (/\ Finished
     /\ history # <<>>
     /\ history[1].network_config = network_config
     /\ history[1].outputs = outputs)
        => history[1].result = result

\* Two runs with the same arguments but for the verbose flag, started at
\* different times, that both returned a nonce above 0.
C5_Witness ==
    /\ pc = "Found"
    /\ history # <<>>
    /\ history[1].network_config = network_config
    /\ history[1].outputs = outputs
    /\ history[1].verbose # verbose
    /\ history[1].start_time # start_time
    /\ result.value.nonce > 0

\* C7: compute_merkle_root([txid]) returns txid without hashing anything, so
\* the merkle root in every header mine_genesis hashes is the coinbase
\* transaction id double_sha256(coinbase_tx).
C7_MerkleRootIsTxid ==
    pc \in {"Searching", "Found", "Exhausted"} =>
        LET coinbase_tx == serialize_transaction(outputs, network_config.timestamp).val
        IN  /\ coinbase_tx \in DOMAIN sha
            /\ txid = sha[coinbase_tx]
            /\ merkle_root = txid
            /\ sha_calls = 1 + Cardinality(hashed)
            /\ DOMAIN sha = {coinbase_tx} \cup {HeaderWithNonce(n) : n \in hashed}
            /\ header # <<>> => SubSeq(header, 37, 68) = sha[coinbase_tx]

\* A header has been hashed whose merkle root is not the all-zero value.
C7_Witness ==
    /\ pc = "Searching"
    /\ header # <<>>
    /\ nonce = 2
    /\ SubSeq(header, 37, 68) = DigestMid

-----------------------------------------------------------------------------
(* compute_merkle_root called on its own *)

\* No call of mine_genesis is in progress.
IdleMiner ==
    /\ network_config = [timestamp |-> <<>>, nTime |-> 0, nBits |-> 0, nVersion |-> 0]
    /\ outputs = <<>>
    /\ verbose = FALSE
    /\ clock = 0
    /\ sha = NoHashes
    /\ sha_calls = 0
    /\ stdout = 0
    /\ history = <<>>
    /\ FreshLocals

TxidLists == UNION {[1..n -> DigestSet] : n \in 0..MaxTxids}

\* The most double_sha256 calls compute_merkle_root makes on n txids.
RECURSIVE MerkleHashes(_)
MerkleHashes(n) == IF n <= 1 THEN 0 ELSE ((n + 1) \div 2) + MerkleHashes((n + 1) \div 2)

\* root = compute_merkle_root(txids), txids being a list of the caller.
MerkleCall ==
    /\ pc = "MerkleCall"
    /\ \E fresh \in [1..MerkleHashes(Len(txids)) -> DigestSet] :
       \E call \in {compute_merkle_root(txids, sha, fresh)} :
          /\ merkle_ret' = call.ret
          /\ txids' = call.txids
          /\ sha' = call.sha
          /\ sha_calls' = call.calls
    /\ pc' = "MerkleDone"
    /\ UNCHANGED <<input_vars, clock, txid, merkle_root, prev_hash, target, start_time,
                   nonce, header, hash_result, hashed, result, stdout, history,
                   merkle_arg, target_vars>>

InitMerkle ==
    /\ IdleMiner
    /\ IdleTarget
    /\ pc = "MerkleCall"
    /\ txids \in TxidLists
    /\ merkle_arg = txids
    /\ merkle_ret = <<>>

NextMerkle == MerkleCall

SpecMerkle == InitMerkle /\ [][NextMerkle]_vars

\* H(H(a || b) || H(c || c)) for the double hash H as far as it is known.
ThreeLeafRoot(a, b, c) == sha[sha[a \o b] \o sha[c \o c]]

ThreeLeafRootKnown(a, b, c) ==
    /\ (a \o b) \in DOMAIN sha
    /\ (c \o c) \in DOMAIN sha
    /\ (sha[a \o b] \o sha[c \o c]) \in DOMAIN sha

\* C6: compute_merkle_root([a,b,c]) = compute_merkle_root([a,b,c,c])
\* = H(H(a||b) || H(c||c)): whichever of the two lists was passed, the value
\* returned is that hash, and a call on the other list under the same hash
\* function returns the same value.
C6_OddLevelDuplicatesLast ==
    /\ (pc = "MerkleDone" /\ Len(merkle_arg) = 3) =>
          /\ ThreeLeafRootKnown(merkle_arg[1], merkle_arg[2], merkle_arg[3])
          /\ merkle_ret = ThreeLeafRoot(merkle_arg[1], merkle_arg[2], merkle_arg[3])
          /\ \A fresh \in [1..3 -> DigestSet] :
               compute_merkle_root(Append(merkle_arg, merkle_arg[3]), sha, fresh).ret
                 = merkle_ret
    /\ (pc = "MerkleDone" /\ Len(merkle_arg) = 4 /\ merkle_arg[3] = merkle_arg[4]) =>
          /\ ThreeLeafRootKnown(merkle_arg[1], merkle_arg[2], merkle_arg[3])
          /\ merkle_ret = ThreeLeafRoot(merkle_arg[1], merkle_arg[2], merkle_arg[3])
          /\ \A fresh \in [1..3 -> DigestSet] :
               compute_merkle_root(SubSeq(merkle_arg, 1, 3), sha, fresh).ret = merkle_ret

\* A call on three different txids whose two first-level hashes differ.
C6_Witness ==
    /\ pc = "MerkleDone"
    /\ merkle_arg = <<DigestLow, DigestMid, DigestHigh>>
    /\ sha[DigestLow \o DigestMid] # sha[DigestHigh \o DigestHigh]
    /\ merkle_ret = DigestMid

\* C10 as claimed: the caller's list is the same after the call as before.
C10_CallerListUnchanged ==
    pc = "MerkleDone" => txids = merkle_arg

-----------------------------------------------------------------------------
(* nbits_to_target called on its own, on two compact values *)

Exponents == {0, 1, 2, 3, 4, 5, 29, 30, 32, 127}

Mantissas == {0, 1, 255, 256, 65535, 65536, 1048560, 8388607, 8388608, 16777215}

compact(exponent, mantissa) == exponent * 16777216 + mantissa

exponent_of(nbits) == nbits \div 16777216

mantissa_of(nbits) == nbits % 16777216

TargetCall ==
    /\ pc = "TargetCall"
    /\ target_ret' = <<nbits_to_target(nbits_arg[1]), nbits_to_target(nbits_arg[2])>>
    /\ pc' = "TargetDone"
    /\ UNCHANGED <<sha, sha_calls, input_vars, clock, txid, merkle_root, prev_hash,
                   target, start_time, nonce, header, hash_result, hashed, result,
                   stdout, history, merkle_vars, nbits_arg>>

InitTarget ==
    /\ IdleMiner
    /\ IdleMerkle
    /\ pc = "TargetCall"
    /\ target_ret = <<>>
    /\ \E e1 \in Exponents, e2 \in Exponents, m1 \in Mantissas, m2 \in Mantissas :
         /\ e1 = e2 \/ m1 = m2
         /\ nbits_arg = <<compact(e1, m1), compact(e2, m2)>>

NextTarget == TargetCall

SpecTarget == InitTarget /\ [][NextTarget]_vars

SameExponentSmallerMantissa ==
    /\ exponent_of(nbits_arg[1]) = exponent_of(nbits_arg[2])
    /\ mantissa_of(nbits_arg[1]) < mantissa_of(nbits_arg[2])

SameMantissaSmallerExponent ==
    /\ mantissa_of(nbits_arg[1]) = mantissa_of(nbits_arg[2])
    /\ exponent_of(nbits_arg[1]) < exponent_of(nbits_arg[2])

\* C9 as claimed: with the same exponent a larger mantissa gives a strictly
\* larger target, for every exponent; with the same mantissa a larger
\* exponent gives a target at least as large.
C9_StrictlyMonotoneInMantissa ==
    pc = "TargetDone" =>
        /\ SameExponentSmallerMantissa => BigLess(target_ret[1], target_ret[2])
        /\ SameMantissaSmallerExponent => BigLeq(target_ret[1], target_ret[2])

\* C9, amended: with the same exponent a larger mantissa gives a strictly
\* larger target when the exponent is 3 or more, and a target at least as
\* large when the exponent is below 3 (the mantissa's low bytes are shifted
\* out); with the same mantissa a larger exponent gives a target at least as
\* large.
C9_MonotoneTarget ==
    pc = "TargetDone" =>
        /\ (SameExponentSmallerMantissa /\ exponent_of(nbits_arg[1]) >= 3)
              => BigLess(target_ret[1], target_ret[2])
        /\ (SameExponentSmallerMantissa /\ exponent_of(nbits_arg[1]) < 3)
              => BigLeq(target_ret[1], target_ret[2])
        /\ SameMantissaSmallerExponent => BigLeq(target_ret[1], target_ret[2])

\* Exponent 2 with mantissas 1 and 255, which differ in the low byte only
\* (both targets are 0), next to exponent 4 in the same state space.
C9_Witness ==
    /\ pc = "TargetDone"
    /\ nbits_arg = <<compact(2, 1), compact(2, 255)>>
    /\ target_ret[1] = target_ret[2]

-----------------------------------------------------------------------------
(* serialize_block_header called on its own *)

HeaderConfigs ==
    [timestamp : {MsgTest},
     nTime : {0, GenesisTime, 2147483647},
     nBits : {0, RegtestNBits, MainnetNBits},
     nVersion : {0, 1, 2, 2147483647}]

\* header = serialize_block_header(nVersion, prev_hash, merkle_root, nTime,
\* nBits, nonce)
HeaderCall ==
    /\ pc = "HeaderCall"
    /\ \E hdr \in {serialize_block_header(network_config.nVersion, prev_hash, merkle_root,
                                            network_config.nTime, network_config.nBits,
                                            nonce)} :
          /\ header' = hdr.val
          /\ pc' = IF hdr.exc = "" THEN "HeaderDone" ELSE "Raised"
    /\ UNCHANGED <<sha, sha_calls, input_vars, clock, txid, merkle_root, prev_hash,
                   target, start_time, nonce, hash_result, hashed, result, stdout,
                   history, merkle_vars, target_vars>>

InitHeader ==
    /\ IdleMerkle
    /\ IdleTarget
    /\ pc = "HeaderCall"
    /\ network_config \in HeaderConfigs
    /\ prev_hash \in {Rep(0, 32), DigestHigh}
    /\ merkle_root \in DigestSet
    /\ nonce \in {0, 1, 255, 256, 65536, 2147483647}
    /\ outputs = <<>>
    /\ verbose = FALSE
    /\ clock = 0
    /\ sha = NoHashes
    /\ sha_calls = 0
    /\ stdout = 0
    /\ history = <<>>
    /\ txid = <<>>
    /\ target = <<>>
    /\ start_time = 0
    /\ header = <<>>
    /\ hash_result = <<>>
    /\ hashed = {}
    /\ result = NoResult

NextHeader == HeaderCall

SpecHeader == InitHeader /\ [][NextHeader]_vars

\* The unsigned integer four bytes hold, least significant byte first.
U32At(data, first) ==
    data[first] + 256 * data[first + 1] + 65536 * data[first + 2]
        + 16777216 * data[first + 3]

\* C8: serialize_block_header returns exactly 80 bytes: version (4),
\* prev_hash (32), merkle_root (32), time (4), bits (4), nonce (4), the
\* integers little-endian.
C8_HeaderIs80Bytes ==
    pc = "HeaderDone" =>
        /\ Len(header) = 80
        /\ \A i \in 1..80 : header[i] \in 0..255
        /\ U32At(header, 1) = network_config.nVersion
        /\ SubSeq(header, 5, 36) = prev_hash
        /\ SubSeq(header, 37, 68) = merkle_root
        /\ U32At(header, 69) = network_config.nTime
        /\ U32At(header, 73) = network_config.nBits
        /\ U32At(header, 77) = nonce

\* The same for the headers of the nonce search: every header mine_genesis
\* has hashed is 80 bytes long and ends with the nonce it was hashed for.
SearchedHeadersAre80Bytes ==
    \A n \in hashed :
        /\ Len(HeaderWithNonce(n)) = 80
        /\ HeaderWithNonce(n) \in DOMAIN sha
        /\ U32At(HeaderWithNonce(n), 77) = n

\* The header of the regtest configuration with a nonce of more than one
\* byte.
C8_Witness ==
    /\ pc = "HeaderDone"
    /\ network_config.nBits = RegtestNBits
    /\ network_config.nTime = GenesisTime
    /\ network_config.nVersion = 1
    /\ nonce = 65536
    /\ prev_hash = Rep(0, 32)
    /\ merkle_root = DigestMid

====
